---- MODULE Spec2Model ----
(***************************************************************************)
(* Model of library_management.py: class Book (a record and its dict       *)
(* form), class Library (the in-memory list self.books, the JSON file      *)
(* self.filename, and the operations add_book, delete_book, search_books,  *)
(* display_books, update_status, load_books, save_books).                  *)
(*                                                                         *)
(* Text is modelled as a sequence of Unicode code points, so that          *)
(* str.lower() and str(int) are computed and not assumed.                  *)
(***************************************************************************)
EXTENDS Integers, Sequences, FiniteSets

VARIABLES
    books,      \* self.books: the list of Book objects, in list order
    store,      \* the file self.filename
    raised,     \* the exception that left the last call, or "none"
    call,       \* the last call made on the Library and its arguments
    out,        \* what the last call printed
    wrote,      \* TRUE iff the last call opened the file for writing
    prev,       \* self.books before the last call
    prevStore,  \* the file before the last call
    saved,      \* how save_books ended in the last call, "not_called" if it did not run
    ret,        \* the value the last call returned
    deletedTop  \* the id the call before the last one deleted, when that was
                \* the largest id of the catalog and the call returned; else 0

vars == <<books, store, raised, call, out, wrote, prev, prevStore, saved, ret,
          deletedTop>>

----------------------------------------------------------------------------
(* Bounds *)

\* add_book is not taken once the id it would assign exceeds MaxId
MaxId == 3

----------------------------------------------------------------------------
(* Text *)

\* "в наличии"
StatusAvailable == <<1074, 32, 1085, 1072, 1083, 1080, 1095, 1080, 1080>>
\* "выдана"
StatusIssued == <<1074, 1099, 1076, 1072, 1085, 1072>>
\* "Выдана": differs from StatusIssued in letter case only
StatusIssuedCapital == <<1042, 1099, 1076, 1072, 1085, 1072>>
\* "ВЫДАНА"
StatusIssuedUpper == <<1042, 1067, 1044, 1040, 1053, 1040>>

\* the list literal of update_status
ValidStatuses == {StatusAvailable, StatusIssued}

\* str.lower() on one code point: Latin A-Z, Cyrillic А-Я and Ё
LowerChar(c) ==
    IF c \in 65..90 THEN c + 32
    ELSE IF c \in 1040..1071 THEN c + 32
    ELSE IF c = 1025 THEN 1105
    ELSE c

\* str.lower()
Lower(s) == [i \in 1..Len(s) |-> LowerChar(s[i])]

RECURSIVE Digits(_)
\* the decimal digits of a natural number, as code points
Digits(n) == IF n < 10 THEN <<48 + n>> ELSE Append(Digits(n \div 10), 48 + (n % 10))

PyInt(n) == [t |-> "int", v |-> n]
PyText(s) == [t |-> "str", v |-> s]

\* None
PyNone == [t |-> "None"]

\* str(value) for an int or a str
PyStr(x) ==
    IF x.t = "int"
    THEN (IF x.v < 0 THEN <<45>> \o Digits(0 - x.v) ELSE Digits(x.v))
    ELSE x.v

----------------------------------------------------------------------------
(* class Book *)

\* Book.__init__
Book(book_id, title, author, year, status) ==
    [book_id |-> book_id, title |-> title, author |-> author,
     year |-> year, status |-> status]

\* Book.to_dict
ToDict(book) ==
    [t |-> "dict",
     v |-> [id |-> book.book_id, title |-> book.title, author |-> book.author,
            year |-> book.year, status |-> book.status]]

RequiredKeys == {"id", "title", "author", "year", "status"}

\* Book.from_dict: the exception data[...] raises, or "none"
FromDictRaises(data) ==
    IF data.t # "dict" THEN "TypeError"
    ELSE IF ~(RequiredKeys \subseteq DOMAIN data.v) THEN "KeyError"
    ELSE "none"

\* FromDict with title and author passed in the other order
FromDictSwapped(data) ==
    Book(data.v.id, data.v.author, data.v.title, data.v.year, data.v.status)

\* Book.from_dict
FromDict(data) ==
    Book(data.v.id, data.v.title, data.v.author, data.v.year, data.v.status)

\* getattr(book, key, "")
GetAttr(book, key) ==
    CASE key = "book_id" -> PyInt(book.book_id)
      [] key = "title" -> PyText(book.title)
      [] key = "author" -> PyText(book.author)
      [] key = "year" -> PyInt(book.year)
      [] key = "status" -> PyText(book.status)
      [] OTHER -> PyText(<<>>)

----------------------------------------------------------------------------
(* The file *)

MissingFile == [kind |-> "missing"]
\* text that is not JSON: an empty file, a truncated or damaged one
GarbageFile == [kind |-> "garbage"]
\* bytes that are not UTF-8
NotUtf8File == [kind |-> "not_utf8"]
JsonFile(val) == [kind |-> "json", val |-> val]

JsonList(elems) == [t |-> "list", v |-> elems]

\* json.dump([book.to_dict() for book in self.books], ...)
DumpBooks(bks) == JsonFile(JsonList([i \in 1..Len(bks) |-> ToDict(bks[i])]))

\* Library.load_books: the exception that leaves it, or "none"
LoadRaises(f) ==
    IF f.kind = "not_utf8" THEN "UnicodeDecodeError"
    ELSE IF f.kind # "json" THEN "none"
    ELSE IF f.val.t # "list" THEN "TypeError"
    ELSE IF \E i \in 1..Len(f.val.v) : FromDictRaises(f.val.v[i]) = "TypeError"
              /\ \A j \in 1..(i - 1) : FromDictRaises(f.val.v[j]) = "none"
         THEN "TypeError"
    ELSE IF \E i \in 1..Len(f.val.v) : FromDictRaises(f.val.v[i]) = "KeyError"
         THEN "KeyError"
    ELSE "none"

\* Library.load_books: self.books after it
LoadBooks(f) ==
    IF f.kind # "json" \/ LoadRaises(f) # "none" THEN <<>>
    ELSE [i \in 1..Len(f.val.v) |-> FromDict(f.val.v[i])]

----------------------------------------------------------------------------
(* class Library: the computations of its methods *)

\* SetMax that takes the smallest element
SetMin(S) == CHOOSE m \in S : \A x \in S : m <= x

\* max() of a non-empty set of ids
SetMax(S) == CHOOSE m \in S : \A x \in S : x <= m

\* NewId as a count of the books, not the largest id
NewIdByCount(bks) == Len(bks) + 1

\* add_book: max((book.book_id for book in self.books), default=0) + 1
NewId(bks) ==
    (IF bks = <<>> THEN 0 ELSE SetMax({bks[i].book_id : i \in 1..Len(bks)})) + 1

\* AddedBooks with the new book put first
AddedBooksInFront(bks, title, author, year) ==
    <<Book(NewId(bks), title, author, year, StatusAvailable)>> \o bks

\* add_book: self.books after the append
AddedBooks(bks, title, author, year) ==
    Append(bks, Book(NewId(bks), title, author, year, StatusAvailable))

\* the position of the first book the loops of delete_book and update_status
\* stop at, 0 when the loop runs to its end
FirstWithId(bks, book_id) ==
    IF \E i \in 1..Len(bks) : bks[i].book_id = book_id
    THEN CHOOSE i \in 1..Len(bks) :
             /\ bks[i].book_id = book_id
             /\ \A j \in 1..(i - 1) : bks[j].book_id # book_id
    ELSE 0

\* RemoveAt that fills the hole with the last element
RemoveAtSwapLast(bks, i) ==
    [j \in 1..(Len(bks) - 1) |-> IF j = i THEN bks[Len(bks)] ELSE bks[j]]

\* list.remove of the element at position i
RemoveAt(bks, i) ==
    [j \in 1..(Len(bks) - 1) |-> IF j < i THEN bks[j] ELSE bks[j + 1]]

\* DeletedBooks that takes position -1, the last book, when no id matches
DeletedBooksPopLast(bks, book_id) ==
    IF FirstWithId(bks, book_id) # 0 THEN RemoveAt(bks, FirstWithId(bks, book_id))
    ELSE IF bks = <<>> THEN bks
    ELSE RemoveAt(bks, Len(bks))

\* delete_book: self.books after the call
DeletedBooks(bks, book_id) ==
    IF FirstWithId(bks, book_id) = 0 THEN bks
    ELSE RemoveAt(bks, FirstWithId(bks, book_id))

\* delete_book: whether the call reaches save_books
DeleteSaves(bks, book_id) == FirstWithId(bks, book_id) # 0

\* Matches without the two calls of lower()
MatchesCaseSensitive(book, key, value) ==
    PyStr(GetAttr(book, key)) = PyStr(value)

\* search_books: the condition of the list comprehension
Matches(book, key, value) ==
    Lower(PyStr(GetAttr(book, key))) = Lower(PyStr(value))

\* search_books: one pass of the loop over kwargs
FilterBooks(bks, key, value) ==
    SelectSeq(bks, LAMBDA book : Matches(book, key, value))

RECURSIVE SearchResults(_, _)
\* search_books: results after the loop over kwargs, a sequence of <<key, value>>
SearchResults(bks, kwargs) ==
    IF kwargs = <<>> THEN bks
    ELSE SearchResults(FilterBooks(bks, Head(kwargs)[1], Head(kwargs)[2]), Tail(kwargs))

\* SearchedBooks of a search_books that filters self.books itself
SearchedBooksInPlace(bks, kwargs) == SearchResults(bks, kwargs)

\* search_books: self.books after the call; the loop rebinds the local name
\* results and leaves self.books alone
SearchedBooks(bks, kwargs) == bks

\* StatusIsValid that compares in lower case
StatusIsValidAnyCase(status) ==
    Lower(status) \in {Lower(v) : v \in ValidStatuses}

\* update_status: status in ["в наличии", "выдана"]
StatusIsValid(status) == status \in ValidStatuses

\* UpdateSaves of an update_status that never calls save_books
UpdateNeverSaves(bks, book_id, status) == FALSE

\* update_status: whether the call reaches save_books
UpdateSaves(bks, book_id, status) ==
    FirstWithId(bks, book_id) # 0 /\ StatusIsValid(status)

\* UpdatedBooks that sets the status of every book once the id is found
UpdatedBooksAll(bks, book_id, status) ==
    IF FirstWithId(bks, book_id) # 0 /\ StatusIsValid(status)
    THEN [i \in 1..Len(bks) |-> [bks[i] EXCEPT !.status = status]]
    ELSE bks

\* UpdatedBooks that sets the status without the test of the status
UpdatedBooksUnchecked(bks, book_id, status) ==
    IF FirstWithId(bks, book_id) # 0
    THEN [bks EXCEPT ![FirstWithId(bks, book_id)].status = status]
    ELSE bks

\* update_status: self.books after the call
UpdatedBooks(bks, book_id, status) ==
    IF FirstWithId(bks, book_id) # 0 /\ StatusIsValid(status)
    THEN [bks EXCEPT ![FirstWithId(bks, book_id)].status = status]
    ELSE bks

----------------------------------------------------------------------------
(* What a call prints *)

Say(msg, book_id) == [msg |-> msg, book_id |-> book_id, books |-> <<>>]

\* nothing printed
Silent == Say("", 0)

\* display_books(books): books or self.books, one line per book
DisplayBooks(arg, bks) ==
    LET shown == IF arg = <<>> THEN bks ELSE arg
    IN  IF shown = <<>> THEN Say("library_empty", 0)
        ELSE [msg |-> "books", book_id |-> 0, books |-> shown]

\* search_books: the branch on results
SearchPrints(bks, kwargs) ==
    IF SearchResults(bks, kwargs) # <<>>
    THEN DisplayBooks(SearchResults(bks, kwargs), bks)
    ELSE Say("no_match", 0)

\* AddPrints that reports the number of books as the id
AddPrintsCount(bks) == Say("added", Len(bks) + 1)

\* add_book
AddPrints(bks) == Say("added", NewId(bks))

\* delete_book
DeletePrints(bks, book_id) ==
    IF FirstWithId(bks, book_id) # 0 THEN Say("deleted", book_id)
    ELSE Say("not_found", book_id)

\* UpdatePrints of an update_status that reports success for every valid status
UpdatePrintsNoLookup(bks, book_id, status) ==
    IF StatusIsValid(status) THEN Say("status_updated", book_id)
    ELSE Say("bad_status", 0)

\* UpdatePrints of an update_status that checks the status before the lookup
UpdatePrintsStatusFirst(bks, book_id, status) ==
    IF ~StatusIsValid(status) THEN Say("bad_status", 0)
    ELSE IF FirstWithId(bks, book_id) = 0 THEN Say("not_found", book_id)
    ELSE Say("status_updated", book_id)

\* update_status
UpdatePrints(bks, book_id, status) ==
    IF FirstWithId(bks, book_id) = 0 THEN Say("not_found", book_id)
    ELSE IF StatusIsValid(status) THEN Say("status_updated", book_id)
    ELSE Say("bad_status", 0)

----------------------------------------------------------------------------
(* Inputs *)

\* "Ab", "AbC", "AB", "A"
TitleAb == <<65, 98>>
TitleAbC == <<65, 98, 67>>
TextAB == <<65, 66>>
TextA == <<65>>
\* "To", "to", "Da"
AuthorTo == <<84, 111>>
Textto == <<116, 111>>
AuthorDa == <<68, 97>>
\* "1869", "12"
Text1869 == <<49, 56, 54, 57>>
Text12 == <<49, 50>>

\* the (title, author, year) arguments of add_book
AddInputs == {<<TitleAb, AuthorTo, 1869>>, <<TitleAbC, AuthorDa, 12>>}

\* the book_id arguments of delete_book and update_status
IdInputs == 0..MaxId

\* the status arguments of update_status: the two labels, and a label in
\* another letter case
StatusInputs == {StatusAvailable, StatusIssued, StatusIssuedCapital}

\* the kwargs of search_books with one keyword: each of the four fields of a
\* record, the attribute book_id, and "id", which no Book has
OneKeyword ==
    {<<"title", PyText(s)>> : s \in {TitleAb, TextAB, TextA, <<>>}}
    \cup {<<"author", PyText(s)>> : s \in {Textto, AuthorDa}}
    \cup {<<"year", x>> : x \in {PyText(Text1869), PyText(Text12), PyInt(1869), PyInt(12)}}
    \cup {<<"status", PyText(s)>> : s \in {StatusIssued, StatusIssuedUpper}}
    \cup {<<"book_id", x>> : x \in {PyInt(1), PyText(Text12)}}
    \cup {<<"id", PyText(s)>> : s \in {TitleAb, <<>>}}

\* the kwargs of search_books: none, one keyword, or two
KwargsInputs ==
    {<<>>}
    \cup {<<kv>> : kv \in OneKeyword}
    \cup {<<(<<"title", PyText(TextAB)>>), (<<"status", PyText(s)>>)>> :
              s \in {StatusIssuedUpper, StatusAvailable}}

\* the file the program is first started on: absent, not JSON (an empty file
\* among them), not UTF-8, an empty JSON list, a list with an entry lacking
\* "status", a list with an entry that is no object, a JSON number
InitStores ==
    {MissingFile, GarbageFile, NotUtf8File, JsonFile(JsonList(<<>>)),
     JsonFile(JsonList(<<[t |-> "dict",
                          v |-> [id |-> 1, title |-> TitleAb, author |-> AuthorTo,
                                 year |-> 1869]]>>)),
     JsonFile(JsonList(<<PyInt(1)>>)),
     JsonFile(PyInt(1))}

\* how save_books ends: the file rewritten, open() refused, or the write
\* broken off after open() truncated the file
SaveOutcomes == {"ok", "open_fails", "write_fails"}

----------------------------------------------------------------------------
(* The state machine *)

\* Library.__init__ on the file f
Constructed(f) ==
    /\ books' = LoadBooks(f)
    /\ store' = f
    /\ raised' = LoadRaises(f)
    /\ call' = [op |-> "__init__"]
    /\ out' = Silent
    /\ wrote' = FALSE
    /\ saved' = "not_called"
    /\ ret' = PyNone

\* main() started: library = Library()
Init ==
    \E f \in InitStores :
        /\ books = LoadBooks(f)
        /\ store = f
        /\ raised = LoadRaises(f)
        /\ call = [op |-> "__init__"]
        /\ out = Silent
        /\ wrote = FALSE
        /\ prev = <<>>
        /\ prevStore = f
        /\ saved = "not_called"
        /\ ret = PyNone
        /\ deletedTop = 0

\* the id the last call deleted, when the call was a delete_book of the
\* largest id of the catalog and returned; else 0
TopDeleted ==
    IF /\ call.op = "delete_book"
       /\ raised = "none"
       /\ FirstWithId(prev, call.book_id) # 0
       /\ \A i \in 1..Len(prev) : prev[i].book_id <= call.book_id
    THEN call.book_id
    ELSE 0

\* the program is started again on the file it left
Restart ==
    /\ Constructed(store)
    /\ prev' = books
    /\ prevStore' = store
    /\ deletedTop' = TopDeleted

\* SaveRaises of a save_books that swallows the error of a failed write
SaveRaisesNothing(w) == "none"

\* save_books: the exception that leaves it when it ends as w says; it has
\* no except clause
SaveRaises(w) == IF w = "ok" THEN "none" ELSE "OSError"

\* save_books, ending as w says
SaveBooks(w) ==
    /\ store' = CASE w = "ok" -> DumpBooks(books')
                  [] w = "write_fails" -> GarbageFile
                  [] OTHER -> store
    /\ wrote' = (w # "open_fails")
    /\ raised' = SaveRaises(w)
    /\ saved' = w

\* a call that returns without save_books
NoSave ==
    /\ store' = store
    /\ wrote' = FALSE
    /\ raised' = "none"
    /\ saved' = "not_called"

\* the value a method of Library returns: none has a return with a value
Returned(op) == PyNone

\* what every call records
Called(c) ==
    /\ call' = c
    /\ prev' = books
    /\ prevStore' = store
    /\ ret' = Returned(c.op)
    /\ deletedTop' = TopDeleted

\* Library.add_book
AddBook ==
    /\ raised = "none"
    /\ NewId(books) <= MaxId
    /\ \E inp \in AddInputs, w \in SaveOutcomes :
        /\ Called([op |-> "add_book", title |-> inp[1], author |-> inp[2],
                   year |-> inp[3]])
        /\ books' = AddedBooks(books, inp[1], inp[2], inp[3])
        /\ SaveBooks(w)
        /\ out' = IF SaveRaises(w) = "none" THEN AddPrints(books) ELSE Silent

\* Library.delete_book
DeleteBook ==
    /\ raised = "none"
    /\ \E book_id \in IdInputs, w \in SaveOutcomes :
        /\ Called([op |-> "delete_book", book_id |-> book_id])
        /\ books' = DeletedBooks(books, book_id)
        /\ IF DeleteSaves(books, book_id)
           THEN /\ SaveBooks(w)
                /\ out' = IF SaveRaises(w) = "none" THEN DeletePrints(books, book_id)
                          ELSE Silent
           ELSE /\ w = "ok"
                /\ NoSave
                /\ out' = DeletePrints(books, book_id)

\* Library.search_books
SearchBooks ==
    /\ raised = "none"
    /\ \E kwargs \in KwargsInputs :
        /\ Called([op |-> "search_books", kwargs |-> kwargs])
        /\ books' = SearchedBooks(books, kwargs)
        /\ NoSave
        /\ out' = SearchPrints(books, kwargs)

\* Library.display_books()
ListBooks ==
    /\ raised = "none"
    /\ Called([op |-> "display_books"])
    /\ books' = books
    /\ NoSave
    /\ out' = DisplayBooks(<<>>, books)

\* Library.update_status
UpdateStatus ==
    /\ raised = "none"
    /\ \E book_id \in IdInputs, status \in StatusInputs, w \in SaveOutcomes :
        /\ Called([op |-> "update_status", book_id |-> book_id, status |-> status])
        /\ books' = UpdatedBooks(books, book_id, status)
        /\ IF UpdateSaves(books, book_id, status)
           THEN /\ SaveBooks(w)
                /\ out' = IF SaveRaises(w) = "none"
                          THEN UpdatePrints(books, book_id, status)
                          ELSE Silent
           ELSE /\ w = "ok"
                /\ NoSave
                /\ out' = UpdatePrints(books, book_id, status)

Next ==
    \/ AddBook
    \/ DeleteBook
    \/ SearchBooks
    \/ ListBooks
    \/ UpdateStatus
    \/ Restart

Spec == Init /\ [][Next]_vars

TypeOK ==
    /\ raised \in {"none", "OSError", "KeyError", "TypeError", "UnicodeDecodeError"}
    /\ saved \in {"not_called"} \cup SaveOutcomes
    /\ deletedTop \in 0..MaxId
    /\ wrote \in BOOLEAN
    /\ \A i \in 1..Len(books) : books[i].book_id \in 1..MaxId

----------------------------------------------------------------------------
(* Properties *)

HasId(bks, book_id) == \E i \in 1..Len(bks) : bks[i].book_id = book_id

\* the file holds a list of objects with exactly the five keys, one per book
\* of bks, in the order of bks, each key with that book's value
StoreEncodes(f, bks) ==
    /\ f.kind = "json"
    /\ f.val.t = "list"
    /\ Len(f.val.v) = Len(bks)
    /\ \A i \in 1..Len(bks) :
        /\ f.val.v[i].t = "dict"
        /\ DOMAIN f.val.v[i].v = RequiredKeys
        /\ f.val.v[i].v.id = bks[i].book_id
        /\ f.val.v[i].v.title = bks[i].title
        /\ f.val.v[i].v.author = bks[i].author
        /\ f.val.v[i].v.year = bks[i].year
        /\ f.val.v[i].v.status = bks[i].status

\* C1: in every reachable state the ids of the books of the catalog are
\* pairwise distinct.
C1_IdsDistinct ==
    \A i, j \in 1..Len(books) : i # j => books[i].book_id # books[j].book_id

\* add_book has run on a catalog whose lowest id had been deleted
C1_Witness ==
    /\ call.op = "add_book"
    /\ Len(books) = 2
    /\ books[1].book_id = 2
    /\ books[2].book_id = 3

\* C2: add_book appends exactly one book at the end, with id (largest id
\* present before the call) + 1, or 1 on an empty catalog, with the title,
\* author and year of the call and the status "в наличии"; the books already
\* present are unchanged and in the same positions.
C2_AddAppends ==
    call.op = "add_book" =>
        /\ Len(books) = Len(prev) + 1
        /\ \A i \in 1..Len(prev) : books[i] = prev[i]
        /\ books[Len(books)].title = call.title
        /\ books[Len(books)].author = call.author
        /\ books[Len(books)].year = call.year
        /\ books[Len(books)].status = StatusAvailable
        /\ IF prev = <<>> THEN books[Len(books)].book_id = 1
           ELSE \E i \in 1..Len(prev) :
                   /\ \A j \in 1..Len(prev) : prev[j].book_id <= prev[i].book_id
                   /\ books[Len(books)].book_id = prev[i].book_id + 1

\* add_book has run on a catalog of two books, one of them issued
C2_Witness ==
    /\ call.op = "add_book"
    /\ raised = "none"
    /\ Len(prev) = 2
    /\ prev[2].status = StatusIssued
    /\ books[3].book_id = 3

\* C3: when the file is what save_books writes for the catalog in memory, a
\* Library constructed on it holds a list of the same length with the same
\* id, title, author, year and status at each position.
C3_RoundTrip ==
    (call.op = "__init__" /\ prevStore = DumpBooks(prev)) =>
        /\ raised = "none"
        /\ Len(books) = Len(prev)
        /\ \A i \in 1..Len(prev) :
            /\ books[i].book_id = prev[i].book_id
            /\ books[i].title = prev[i].title
            /\ books[i].author = prev[i].author
            /\ books[i].year = prev[i].year
            /\ books[i].status = prev[i].status

\* a Library has been constructed on the saved file of a catalog of two
\* different books, the first one issued
C3_Witness ==
    /\ call.op = "__init__"
    /\ prevStore = DumpBooks(prev)
    /\ Len(prev) = 2
    /\ prev[1].status = StatusIssued
    /\ prev[1].title # prev[2].title
    /\ Len(books) = 2

\* the last call was an add_book, a delete_book of an id that was present or
\* an update_status of an id that was present to one of the two labels, and
\* no exception left it
MutationSucceeded ==
    /\ raised = "none"
    /\ \/ call.op = "add_book"
       \/ call.op = "delete_book" /\ HasId(prev, call.book_id)
       \/ /\ call.op = "update_status"
          /\ HasId(prev, call.book_id)
          /\ call.status \in {StatusAvailable, StatusIssued}

\* C4: after every successful add_book, delete_book of a present id or
\* update_status of a present id to a valid status, the call has written the
\* file and the file encodes exactly the books in memory, in their order; and
\* whenever the last call returned normally, loading the file gives the
\* books in memory.
C4_WriteThrough ==
    /\ MutationSucceeded => (wrote /\ StoreEncodes(store, books))
    /\ raised = "none" => (LoadRaises(store) = "none" /\ LoadBooks(store) = books)

\* update_status has changed the status of the second of three books
C4_Witness ==
    /\ MutationSucceeded
    /\ call.op = "update_status"
    /\ Len(books) = 3
    /\ call.book_id = 2
    /\ prev[2].status # books[2].status

\* C5: search_books and display_books leave the list of books as it was and
\* do not write the file.
C5_ReadOnly ==
    call.op \in {"search_books", "display_books"} =>
        /\ books = prev
        /\ store = prevStore
        /\ ~wrote

\* search_books has shown some but not all of the books
C5_Witness ==
    /\ call.op = "search_books"
    /\ out.msg = "books"
    /\ Len(out.books) < Len(books)
    /\ Len(out.books) > 0

\* C6: delete_book with an id no book has leaves the list of books as it was
\* and does not write the file.
C6_DeleteAbsent ==
    (call.op = "delete_book" /\ ~HasId(prev, call.book_id)) =>
        /\ books = prev
        /\ store = prevStore
        /\ ~wrote

\* delete_book(2) has run on a catalog of two books, neither with id 2
C6_Witness ==
    /\ call.op = "delete_book"
    /\ call.book_id = 2
    /\ Len(prev) = 2
    /\ ~HasId(prev, 2)

\* C7: delete_book with an id a book has removes that book and nothing else:
\* the books before it keep their positions, the books after it move up by
\* one, no book with that id is left, and, when no exception leaves the call,
\* the file has been written and encodes the result.
C7_DeletePresent ==
    (call.op = "delete_book" /\ HasId(prev, call.book_id)) =>
        /\ \E i \in 1..Len(prev) :
            /\ prev[i].book_id = call.book_id
            /\ Len(books) = Len(prev) - 1
            /\ \A j \in 1..(i - 1) : books[j] = prev[j]
            /\ \A j \in i..Len(books) : books[j] = prev[j + 1]
        /\ ~HasId(books, call.book_id)
        /\ raised = "none" => (wrote /\ StoreEncodes(store, books))

\* delete_book has removed the middle one of three books and saved
C7_Witness ==
    /\ call.op = "delete_book"
    /\ raised = "none"
    /\ Len(prev) = 3
    /\ prev[2].book_id = call.book_id
    /\ prev[1].status # prev[3].status

\* C8: update_status with an id a book has and a status that is neither of
\* the two labels leaves the books, that book's status among them, and the
\* file as they were, and prints the invalid-status message.
C8_UpdateBadStatus ==
    (/\ call.op = "update_status"
     /\ HasId(prev, call.book_id)
     /\ call.status \notin {StatusAvailable, StatusIssued}) =>
        /\ books = prev
        /\ store = prevStore
        /\ ~wrote
        /\ out.msg = "bad_status"

\* update_status(id, "Выдана") has run on a book that is "в наличии"
C8_Witness ==
    /\ call.op = "update_status"
    /\ call.status = StatusIssuedCapital
    /\ \E i \in 1..Len(prev) :
        prev[i].book_id = call.book_id /\ prev[i].status = StatusAvailable

\* C9: update_status with one of the two labels and an id no book has prints
\* the not-found message, leaves the list of books as it was and does not
\* write the file.
C9_UpdateAbsent ==
    (/\ call.op = "update_status"
     /\ ~HasId(prev, call.book_id)
     /\ call.status \in {StatusAvailable, StatusIssued}) =>
        /\ out.msg = "not_found"
        /\ books = prev
        /\ store = prevStore
        /\ ~wrote

\* update_status(1, "выдана") has run on a catalog whose books have other ids
C9_Witness ==
    /\ call.op = "update_status"
    /\ call.status = StatusIssued
    /\ call.book_id = 1
    /\ Len(prev) = 2
    /\ ~HasId(prev, 1)

\* an upper-case letter of the Latin or the Cyrillic alphabet
IsUpperLetter(c) == c \in 65..90 \/ c \in 1040..1071

\* the same character, or the upper-case and the lower-case form of a letter
SameLetter(c, d) ==
    \/ c = d
    \/ IsUpperLetter(c) /\ d = c + 32
    \/ IsUpperLetter(d) /\ c = d + 32
    \/ {c, d} = {1025, 1105}

\* two texts that are equal when letter case is ignored
EqualIgnoringCase(s, u) ==
    /\ Len(s) = Len(u)
    /\ \A i \in 1..Len(s) : SameLetter(s[i], u[i])

RECURSIVE DecimalValue(_)
\* the number a text of digits denotes
DecimalValue(s) ==
    IF s = <<>> THEN 0
    ELSE 10 * DecimalValue(SubSeq(s, 1, Len(s) - 1)) + (s[Len(s)] - 48)

\* s is the decimal text of the natural number n
IsDecimalOf(s, n) ==
    /\ Len(s) >= 1
    /\ \A i \in 1..Len(s) : s[i] \in 48..57
    /\ Len(s) > 1 => s[1] # 48
    /\ DecimalValue(s) = n

\* the fields a search is specified for
SearchFields == {"title", "author", "year", "status"}

\* the text of the field of the book equals the text of the value x when
\* letter case is ignored; the text of an integer is its decimal text
FieldEqualsValue(book, field, x) ==
    IF field = "year"
    THEN (IF x.t = "int" THEN x.v = book.year ELSE IsDecimalOf(x.v, book.year))
    ELSE LET text == CASE field = "title" -> book.title
                       [] field = "author" -> book.author
                       [] OTHER -> book.status
         IN  IF x.t = "int" THEN IsDecimalOf(text, x.v)
             ELSE EqualIgnoringCase(text, x.v)

\* the books the last call printed
ShownBooks == IF out.msg = "books" THEN out.books ELSE <<>>

\* the pairs of different searches on one field whose values differ in
\* letter case only
CaseVariants ==
    {pair \in OneKeyword \X OneKeyword :
        /\ pair[1] # pair[2]
        /\ pair[1][1] = pair[2][1]
        /\ pair[1][1] \in SearchFields
        /\ pair[1][2].t = "str"
        /\ pair[2][2].t = "str"
        /\ EqualIgnoringCase(pair[1][2].v, pair[2][2].v)}

\* C10: search_books with one keyword among title, author, year and status
\* shows exactly the books whose text of that field equals the text of the
\* value when letter case is ignored (the whole text, not a part of it), in
\* the order of the catalog; two searches whose values differ in letter case
\* only show the same books; a search by year with an integer shows the same
\* books as a search with its decimal text.
C10_SearchExact ==
    /\ (/\ call.op = "search_books"
        /\ Len(call.kwargs) = 1
        /\ call.kwargs[1][1] \in SearchFields) =>
            /\ out.msg \in {"books", "no_match"}
            /\ ShownBooks =
                 SelectSeq(prev, LAMBDA book :
                     FieldEqualsValue(book, call.kwargs[1][1], call.kwargs[1][2]))
    /\ \A pair \in CaseVariants :
        SearchPrints(books, <<pair[1]>>) = SearchPrints(books, <<pair[2]>>)
    /\ SearchPrints(books, <<(<<"year", PyInt(1869)>>)>>)
         = SearchPrints(books, <<(<<"year", PyText(Text1869)>>)>>)

\* search_books(title="AB") has shown the one book titled "Ab" of a catalog of
\* three, in which another book's title begins with "Ab"
C10_Witness ==
    /\ call.op = "search_books"
    /\ call.kwargs = <<(<<"title", PyText(TextAB)>>)>>
    /\ Len(prev) = 3
    /\ out.msg = "books"
    /\ Len(out.books) = 1
    /\ out.books[1].title = TitleAb
    /\ \E i \in 1..3 : prev[i].title = TitleAbC

\* C11: search_books with one keyword that is none of title, author, year and
\* status shows no book, whatever the value (the empty text included) and
\* whatever the catalog, and raises nothing.
C11_UnknownFieldEmpty ==
    (/\ call.op = "search_books"
     /\ Len(call.kwargs) = 1
     /\ call.kwargs[1][1] \notin SearchFields) =>
        /\ raised = "none"
        /\ out.msg = "no_match"
        /\ ShownBooks = <<>>

\* the file holds a JSON list of objects that each have the five keys
WellFormedStore(f) ==
    /\ f.kind = "json"
    /\ f.val.t = "list"
    /\ \A i \in 1..Len(f.val.v) :
        /\ f.val.v[i].t = "dict"
        /\ RequiredKeys \subseteq DOMAIN f.val.v[i].v

\* C12: constructing a Library on a file that is missing or whose content is
\* corrupted raises nothing and leaves an empty list of books, and an add_book
\* on that empty catalog assigns id 1.
C12_ConstructNeverRaises ==
    /\ (call.op = "__init__" /\ ~WellFormedStore(store)) =>
        (raised = "none" /\ books = <<>>)
    /\ (call.op = "add_book" /\ prev = <<>>) =>
        (Len(books) = 1 /\ books[1].book_id = 1)

\* C16: when the file parses as JSON but is no list of objects with the five
\* keys, constructing a Library on it raises nothing and leaves an empty list
\* of books.
C16_DecodeFailureRecovered ==
    (call.op = "__init__" /\ store.kind = "json" /\ ~WellFormedStore(store)) =>
        (raised = "none" /\ books = <<>>)

\* the messages of a call that did what it was asked
SuccessMessages == {"added", "deleted", "status_updated"}

\* C13: when save_books cannot write the file during add_book, delete_book or
\* update_status, the error leaves the call: the call ends with the exception
\* and prints no success message.
C13_WriteFailurePropagates ==
    saved \in {"open_fails", "write_fails"} =>
        /\ call.op \in {"add_book", "delete_book", "update_status"}
        /\ raised = "OSError"
        /\ out.msg \notin SuccessMessages

\* the write of update_status on a catalog of two books has broken off
C13_Witness ==
    /\ saved = "write_fails"
    /\ call.op = "update_status"
    /\ Len(prev) = 2

C15_TopIdReissued ==
    (call.op = "add_book" /\ deletedTop # 0) =>
        books[Len(books)].book_id = deletedTop

\* the largest id of bks, 0 when it is empty
TopId(bks) ==
    IF bks = <<>> THEN 0
    ELSE CHOOSE m \in {bks[i].book_id : i \in 1..Len(bks)} :
             \A i \in 1..Len(bks) : bks[i].book_id <= m

\* C15, amended: an add_book that follows the delete_book of the largest id
\* assigns (largest remaining id) + 1, or 1 when no book remains; that id is
\* never larger than the deleted one, and it is the deleted id again when the
\* largest remaining id was one less than it (or it was 1 and nothing remains).
C15_TopIdReissuedIfAdjacent ==
    (call.op = "add_book" /\ deletedTop # 0) =>
        /\ books[Len(books)].book_id = TopId(prev) + 1
        /\ books[Len(books)].book_id <= deletedTop
        /\ TopId(prev) = deletedTop - 1 => books[Len(books)].book_id = deletedTop

\* id 3 was deleted from a catalog holding ids 1, 2 and 3, and the add_book
\* after it has assigned 3 again
C15_Witness ==
    /\ call.op = "add_book"
    /\ deletedTop = 3
    /\ Len(books) = 3
    /\ books[3].book_id = 3

\* C17 as claimed: update_status with a status that is neither of the two
\* labels prints the invalid-status message and changes nothing, for every
\* id, an id no book has included.
C17_BadStatusAnyId ==
    (call.op = "update_status" /\ call.status \notin {StatusAvailable, StatusIssued}) =>
        /\ out.msg = "bad_status"
        /\ books = prev
        /\ store = prevStore
        /\ ~wrote

\* C17, amended: update_status with a status that is neither of the two
\* labels changes nothing, for every id; it prints the invalid-status message
\* when a book has the id and the not-found message when none has.
C17_BadStatusAfterLookup ==
    (call.op = "update_status" /\ call.status \notin {StatusAvailable, StatusIssued}) =>
        /\ out.msg = IF HasId(prev, call.book_id) THEN "bad_status" ELSE "not_found"
        /\ books = prev
        /\ store = prevStore
        /\ ~wrote

\* update_status(3, "Выдана") has run on a catalog of two books without id 3
C17_Witness ==
    /\ call.op = "update_status"
    /\ call.status = StatusIssuedCapital
    /\ call.book_id = 3
    /\ Len(prev) = 2
    /\ ~HasId(prev, 3)

\* C18: an update_status of an id a book has to one of the two labels sets the
\* status of that book and changes nothing else: its id, title, author and
\* year, every other book, the number of books and their order stay.
C18_UpdateOnlyStatus ==
    (/\ call.op = "update_status"
     /\ HasId(prev, call.book_id)
     /\ call.status \in {StatusAvailable, StatusIssued}) =>
        /\ Len(books) = Len(prev)
        /\ \A i \in 1..Len(prev) :
            IF prev[i].book_id = call.book_id
            THEN /\ books[i].status = call.status
                 /\ books[i].book_id = prev[i].book_id
                 /\ books[i].title = prev[i].title
                 /\ books[i].author = prev[i].author
                 /\ books[i].year = prev[i].year
            ELSE books[i] = prev[i]

\* update_status has changed the status of the middle one of three books,
\* whose neighbours have the old status
C18_Witness ==
    /\ call.op = "update_status"
    /\ raised = "none"
    /\ Len(prev) = 3
    /\ prev[2].book_id = call.book_id
    /\ prev[2].status # call.status
    /\ prev[1].status # call.status
    /\ prev[3].status # call.status

\* C19: in every reachable state the status of every book in memory is one of
\* the two labels, and so is every status in the file.
C19_StatusIsALabel ==
    /\ \A i \in 1..Len(books) : books[i].status \in {StatusAvailable, StatusIssued}
    /\ (store.kind = "json" /\ store.val.t = "list") =>
        \A i \in 1..Len(store.val.v) :
            (store.val.v[i].t = "dict" /\ "status" \in DOMAIN store.val.v[i].v) =>
                store.val.v[i].v.status \in {StatusAvailable, StatusIssued}

\* update_status(id, "Выдана") has run on a book of a saved catalog in which
\* a book is issued
C19_Witness ==
    /\ call.op = "update_status"
    /\ call.status = StatusIssuedCapital
    /\ HasId(prev, call.book_id)
    /\ store.kind = "json"
    /\ \E i \in 1..Len(books) : books[i].status = StatusIssued

\* C20: when save_books cannot write the file during add_book, delete_book or
\* update_status, the list of books in memory after the call is the one
\* before it.
C20_UnchangedOnWriteError ==
    saved \in {"open_fails", "write_fails"} => books = prev

====
